---- MODULE Spec2Model ----
(***************************************************************************)
(* Model of the traceable retrain / promote / serve demo:                  *)
(*   src/src/registry.py  the filesystem registry (production.json,        *)
(*                        retrain_log.jsonl)                                *)
(*   src/src/train.py     train_and_promote and its helpers                 *)
(*   src/src/model.py     ConstantModel, MeanModel                          *)
(*   src/app/main.py      the serving process: _load_model, /health,        *)
(*                        /retrain, /predict                                *)
(*                                                                         *)
(* Numbers are exact rationals <<num, den>> (den > 0, lowest terms); the   *)
(* code's floats approximate them.  A file's content is the record whose   *)
(* serialization it holds together with the number of chunks of that       *)
(* serialization that are on disk.                                         *)
(***************************************************************************)
EXTENDS Integers, Sequences, FiniteSets, TLC

(***************************************************************************)
(* Bounds of the model.                                                    *)
(***************************************************************************)
MaxOps == 2            \* calls, requests and crashes over a behaviour
PayloadChunks == 2     \* chunks in which a serialized record reaches the disk

Threads == {1, 2}           \* request-handling threads of the process
NoThread == 0

(***************************************************************************)
(* Rationals.                                                              *)
(***************************************************************************)
RECURSIVE Gcd(_, _)
Gcd(a, b) == IF b = 0 THEN a ELSE Gcd(b, a % b)

Abs(a) == IF a < 0 THEN -a ELSE a

Rat(n, d) ==
    LET g == Gcd(Abs(n), d)
    IN  IF n = 0 THEN <<0, 1>> ELSE <<n \div g, d \div g>>

RatAdd(p, q) == Rat(p[1] * q[2] + q[1] * p[2], p[2] * q[2])
RatDivInt(p, k) == Rat(p[1], p[2] * k)
RatGt(p, q) == p[1] * q[2] > q[1] * p[2]

RECURSIVE RatSum(_)
RatSum(s) == IF s = <<>> THEN <<0, 1>> ELSE RatAdd(Head(s), RatSum(Tail(s)))

RECURSIVE RatMax(_)
RatMax(s) ==
    IF Len(s) = 1 THEN Head(s)
    ELSE LET m == RatMax(Tail(s)) IN IF RatGt(Head(s), m) THEN Head(s) ELSE m

Last(s) == s[Len(s)]

(***************************************************************************)
(* src/src/model.py                                                        *)
(***************************************************************************)
NoModel == [cls |-> "None", value |-> <<0, 1>>, run |-> 0]

ConstantModel(y, run) == [cls |-> "ConstantModel", value |-> y, run |-> run]
MeanModel(m, run) == [cls |-> "MeanModel", value |-> m, run |-> run]

\* a plausible slip: the model echoes its input
predict_one_echo(model, height_cm) == height_cm

\* ConstantModel.predict_one / MeanModel.predict_one: the input is ignored
predict_one(model, height_cm) == model.value

(***************************************************************************)
(* Records and files.                                                      *)
(***************************************************************************)
ModelRelPath == "models/production/model.pkl"

\* the empty dict {}
NoRecord ==
    [run_id |-> 0, trainer |-> "", model_type |-> "", y_value |-> <<0, 1>>,
     mean_height_m |-> <<0, 1>>, n_rows |-> 0, model_path |-> ""]

\* production_meta of train_and_promote (timestamps and the two best-effort
\* provenance strings are left out: no operation reads them back)
ProductionMeta(run, trainer, mtype, y, mean, n) ==
    [run_id |-> run, trainer |-> trainer, model_type |-> mtype, y_value |-> y,
     mean_height_m |-> mean, n_rows |-> n, model_path |-> ModelRelPath]

\* float("nan"): a number that is equal to no number, itself included
NaN == <<0, 0>>
\* float("inf")
Infinity == <<1, 0>>

\* json.dumps(meta, sort_keys=True, indent=2, ensure_ascii=False): one
\* "key": token line per key, in the order of the keys; a float is written
\* by its repr, NaN and infinity as the bare words NaN and Infinity, anything
\* else as its literal
SortedKeys == <<"mean_height_m", "model_path", "model_type", "n_rows", "run_id",
                "trainer", "y_value">>
FloatKeys == {"mean_height_m", "y_value"}

\* a plausible slip: floats are written without their fraction
json_dumps_truncating(meta) ==
    [i \in 1..Len(SortedKeys) |->
        LET k == SortedKeys[i]
        IN  [key |-> k,
             tok |-> IF k \in FloatKeys
                     THEN IF meta[k][2] = 0 THEN [t |-> "float", v |-> meta[k]]
                          ELSE [t |-> "float", v |-> <<meta[k][1] \div meta[k][2], 1>>]
                     ELSE [t |-> "literal", v |-> meta[k]]]]

json_dumps(meta) ==
    [i \in 1..Len(SortedKeys) |->
        LET k == SortedKeys[i]
        IN  [key |-> k,
             tok |-> IF k \in FloatKeys
                     THEN IF meta[k] = NaN THEN [t |-> "NaN", v |-> NaN]
                          ELSE IF meta[k] = Infinity THEN [t |-> "Infinity", v |-> Infinity]
                          ELSE [t |-> "float", v |-> meta[k]]
                     ELSE [t |-> "literal", v |-> meta[k]]]]

\* json.loads of a complete text: the dict of its keys; the word NaN is
\* read as float("nan")
json_loads(text) ==
    [k \in {text[i].key : i \in 1..Len(text)} |->
        LET line == text[CHOOSE i \in 1..Len(text) : text[i].key = k]
        IN  IF line.tok.t = "NaN" THEN NaN
            ELSE IF line.tok.t = "Infinity" THEN Infinity
            ELSE line.tok.v]

\* A file: rec is what its complete text parses to, chunks how much of the
\* text is on disk, form what kind of text it is ("object": json.dumps of a
\* dict; the other forms are not written by this program).
AbsentFile == [exists |-> FALSE, rec |-> NoRecord, chunks |-> 0, form |-> "object"]
FileOf(rec, k) ==
    [exists |-> TRUE, rec |-> json_loads(json_dumps(rec)), chunks |-> k, form |-> "object"]

\* a file with a text of another form: "blank" (whitespace only), "array"
\* (JSON, but not an object), "garbage" (not JSON), "unreadable" (read_text
\* raises)
ForeignFile(form) == [exists |-> TRUE, rec |-> NoRecord, chunks |-> PayloadChunks, form |-> form]

\* a plausible slip: a truncated payload is taken for the record
read_production_lenient(f) ==
    IF ~f.exists THEN NoRecord
    ELSE IF f.chunks = 0 THEN NoRecord
    ELSE f.rec

\* read_production on the content found: {} for an absent file, for a file
\* read_text cannot read, for a text that is empty once stripped, for a text
\* json.loads rejects (a truncated payload among them), and for JSON that is
\* not a dict
read_production(f) ==
    IF ~f.exists THEN NoRecord
    ELSE IF f.form = "unreadable" THEN NoRecord
    ELSE IF f.chunks = 0 \/ f.form = "blank" THEN NoRecord
    ELSE IF f.chunks < PayloadChunks \/ f.form = "garbage" THEN NoRecord
    ELSE IF f.form # "object" THEN NoRecord
    ELSE f.rec

(***************************************************************************)
(* The dataset: data/family_heights.csv and its .dvc pointer.              *)
(***************************************************************************)
Num(n, d) == [kind |-> "num", val |-> Rat(n, d)]
BlankCell == [kind |-> "blank", val |-> <<0, 1>>]
BadCell == [kind |-> "bad", val |-> <<0, 1>>]

AbsentCsv == [exists |-> FALSE, header |-> FALSE, columns |-> {}, rows |-> <<>>]

\* member,height_cm / A,170 / B,180
CsvCm ==
    [exists |-> TRUE, header |-> TRUE, columns |-> {"member", "height_cm"},
     rows |-> << [member |-> BadCell, height_cm |-> Num(170, 1)],
                 [member |-> BadCell, height_cm |-> BlankCell],
                 [member |-> BadCell, height_cm |-> Num(180, 1)] >>]

\* a row whose height does not parse
CsvBadRow ==
    [exists |-> TRUE, header |-> TRUE, columns |-> {"height_m"},
     rows |-> << [height_m |-> Num(17, 10)], [height_m |-> BadCell] >>]

CandidateNames == <<"height_cm", "height_m", "height">>

\* the first candidate name among the columns, "" if none
HeightColumn(columns) ==
    IF CandidateNames[1] \in columns THEN CandidateNames[1]
    ELSE IF CandidateNames[2] \in columns THEN CandidateNames[2]
    ELSE IF CandidateNames[3] \in columns THEN CandidateNames[3]
    ELSE ""

RECURSIVE ParseRows(_, _)
\* the loop over the rows: blank cells are skipped, a cell float() rejects
\* raises; the result is [ok, values]
ParseRows(rows, col) ==
    IF rows = <<>> THEN [ok |-> TRUE, values |-> <<>>]
    ELSE LET cell == Head(rows)[col]
             rest == ParseRows(Tail(rows), col)
         IN  IF cell.kind = "blank" THEN rest
             ELSE IF cell.kind = "bad" THEN [ok |-> FALSE, values |-> <<>>]
             ELSE [ok |-> rest.ok, values |-> IF rest.ok THEN <<cell.val>> \o rest.values ELSE <<>>]

CmThreshold == 10
CmPerM == 100

\* a plausible slip: each value is judged by itself
NormalizeEachValue(raw) ==
    [i \in 1..Len(raw) |->
        IF RatGt(raw[i], <<CmThreshold, 1>>) THEN RatDivInt(raw[i], CmPerM) ELSE raw[i]]

\* the unit heuristic: centimeters when the maximum exceeds 10
Normalize(raw) ==
    IF RatGt(RatMax(raw), <<CmThreshold, 1>>)
    THEN [i \in 1..Len(raw) |-> RatDivInt(raw[i], CmPerM)]
    ELSE raw

\* _read_heights_csv_normalized: [exc, heights]
ReadHeightsCsvNormalized(c) ==
    LET col == HeightColumn(c.columns)
        parsed == ParseRows(c.rows, col)
    IN  IF ~c.exists THEN [exc |-> "FileNotFoundError", heights |-> <<>>]
        ELSE IF ~c.header THEN [exc |-> "ValueError", heights |-> <<>>]
        ELSE IF col = "" THEN [exc |-> "ValueError", heights |-> <<>>]
        ELSE IF ~parsed.ok THEN [exc |-> "ValueError", heights |-> <<>>]
        ELSE IF parsed.values = <<>> THEN [exc |-> "ValueError", heights |-> <<>>]
        ELSE [exc |-> "", heights |-> Normalize(parsed.values)]

\* what `dvc pull data/family_heights.csv` can do: exit with an error, exit
\* with 0 and the file in place, exit with 0 and no file
PullOutcomes == {"failed", "fetched", "nothing"}

\* a plausible slip: the exit code of dvc pull is trusted and the file is
\* not looked for again
EnsureDatasetMaterializedTrusting(c, ptr, pull) ==
    IF c.exists THEN [exc |-> "", csv |-> c, pulls |-> 0]
    ELSE IF ptr
         THEN IF pull = "failed" THEN [exc |-> "RuntimeError", csv |-> c, pulls |-> 1]
              ELSE [exc |-> "", csv |-> IF pull = "fetched" THEN CsvCm ELSE c, pulls |-> 1]
         ELSE [exc |-> "FileNotFoundError", csv |-> c, pulls |-> 0]

\* _ensure_dataset_materialized on the dataset file c and the pointer ptr,
\* when dvc pull would do pull: [exc, csv, pulls], the exception raised if
\* any, the dataset file afterwards, the number of invocations of dvc pull
EnsureDatasetMaterialized(c, ptr, pull) ==
    IF c.exists THEN [exc |-> "", csv |-> c, pulls |-> 0]
    ELSE IF ptr
         THEN IF pull = "failed" THEN [exc |-> "RuntimeError", csv |-> c, pulls |-> 1]
              ELSE IF pull = "fetched" THEN [exc |-> "", csv |-> CsvCm, pulls |-> 1]
              ELSE [exc |-> "RuntimeError", csv |-> c, pulls |-> 1]
         ELSE [exc |-> "FileNotFoundError", csv |-> c, pulls |-> 0]

(***************************************************************************)
(* Request inputs.                                                         *)
(***************************************************************************)
Trainers == {" alice ", " "}
DefaultY == <<3, 2>>                     \* y_value = 1.5
TrainInputs ==
    { [model_type |-> " Mean ", y_value |-> <<2, 1>>],
      [model_type |-> "bogus", y_value |-> DefaultY] }
Heights == { <<30, 1>>, <<300, 1>> }     \* height_cm of a /predict request

\* str.strip on the inputs of the model
Strip(s) ==
    IF s = " alice " THEN "alice"
    ELSE IF s = " " THEN ""
    ELSE IF s = " Mean " THEN "Mean"
    ELSE s

\* str.lower on the inputs of the model
Lower(s) == IF s = "Mean" THEN "mean" ELSE s

(***************************************************************************)
(* State.                                                                  *)
(***************************************************************************)
VARIABLES
    dirs,         \* the directories that exist
    prodFile,     \* metadata/production.json
    tmpFile,      \* per thread: the temporary file of its write_production
    orphans,      \* contents of temporary files no live call owns
    retrainLog,   \* metadata/retrain_log.jsonl, one record per line
    artifact,     \* models/production/model.pkl
    csv,          \* data/family_heights.csv
    dvcPtr,       \* data/family_heights.csv.dvc exists
    sModel,       \* _model
    sMeta,        \* _production_meta
    sErr,         \* _model_load_error
    sTag,         \* history: which refresh installed each of the three
    lock,         \* _state_lock: its holder
    phase,        \* "startup" until the startup hook has run
    pc,           \* per thread: its position
    req,          \* per thread: the request it serves
    loc,          \* per thread: its locals
    resp,         \* the response the last step gave a caller, if it gave one
    nextRun,      \* run ids handed out by the tracking service
    nextRefresh,  \* history: refreshes started
    built,        \* history: the record of each run id
    committed,    \* history: run ids in the order their os.replace took effect
    returned,     \* history: run ids in the order train_and_promote returned them
    hist,         \* history: flags and counters (see InitHist)
    budget        \* calls, requests, crashes and failed removals so far

vars == <<dirs, prodFile, tmpFile, orphans, retrainLog, artifact, csv, dvcPtr,
          sModel, sMeta, sErr, sTag, lock, phase, pc, req, loc, resp,
          nextRun, nextRefresh, built, committed, returned, hist, budget>>

disk == <<dirs, prodFile, tmpFile, orphans, retrainLog, artifact, csv, dvcPtr>>
serving == <<sModel, sMeta, sErr, sTag>>
history == <<built, committed, returned, hist>>

AbsentArtifact == [exists |-> FALSE, ok |-> FALSE, model |-> NoModel]

NoReq == [op |-> "none", trainer |-> "", model_type |-> "", y_value |-> <<0, 1>>,
          height_cm |-> <<0, 1>>]

InitLoc ==
    [trainer |-> "", model_type |-> "", run |-> 0, heights |-> <<>>,
     model |-> NoModel, meta |-> NoRecord, err |-> "", exc |-> "", failedAt |-> "",
     wrote |-> FALSE, logged |-> FALSE, raced |-> FALSE, solo |-> FALSE,
     rid |-> 0, seen |-> 0, rModel |-> NoModel, rMeta |-> NoRecord, rErr |-> "",
     rTag |-> <<0, 0, 0>>]

NoResp == [op |-> "none", status |-> 0, exc |-> "", failedAt |-> "", y |-> <<0, 1>>,
           model |-> NoModel, meta |-> NoRecord, detail |-> "",
           wrote |-> FALSE, logged |-> FALSE, solo |-> FALSE, tag |-> <<0, 0, 0>>, run |-> 0,
           heights |-> <<>>,
           tmpLeft |-> FALSE]   \* history: os.remove failed in the finally block

StartupThread == 1

StartupReq == [NoReq EXCEPT !.op = "startup"]

InitHist == [overlap |-> FALSE,    \* two train_and_promote calls were in flight together
             step9lost |-> FALSE,  \* a call failed or was killed after its replace
             before |-> "Uninitialized",  \* the ServingState the process started from
             ops |-> <<>>,         \* the library functions called directly, in order
             pulls |-> 0]          \* invocations of dvc pull by the direct calls

\* the record, the model and the log line of a promotion (run 1) made by
\* POST /retrain in an earlier life of the process
EarlierRec ==
    [run_id |-> 1, trainer |-> "alice", model_type |-> "constant", y_value |-> DefaultY,
     mean_height_m |-> <<7, 4>>, n_rows |-> 2, model_path |-> ModelRelPath]

\* The process starts on a fresh checkout, or on the files an earlier life
\* of it left after one promotion; the startup hook is about to run.
Init ==
    /\ tmpFile = [t \in Threads |-> AbsentFile]
    /\ orphans = {}
    /\ \/ /\ dirs = {}
          /\ prodFile = AbsentFile
          /\ retrainLog = <<>>
          /\ artifact = AbsentArtifact
          /\ \/ csv = CsvCm /\ dvcPtr = TRUE
             \/ csv = CsvBadRow /\ dvcPtr = FALSE
             \/ csv = AbsentCsv /\ dvcPtr \in BOOLEAN
          /\ nextRun = 1
          /\ built = <<>>
          /\ committed = <<>>
          /\ returned = <<>>
       \/ /\ dirs = {"metadata", "models/production"}
          /\ prodFile = FileOf(EarlierRec, PayloadChunks)
          /\ retrainLog = <<EarlierRec>>
          /\ artifact = [exists |-> TRUE, ok |-> TRUE, model |-> ConstantModel(DefaultY, 1)]
          /\ csv = CsvCm /\ dvcPtr = TRUE
          /\ nextRun = 2
          /\ built = <<EarlierRec>>
          /\ committed = <<1>>
          /\ returned = <<1>>
    /\ sModel = NoModel
    /\ sMeta = NoRecord
    /\ sErr = ""
    /\ sTag = <<0, 0, 0>>
    /\ lock = NoThread
    /\ phase = "startup"
    /\ pc = [t \in Threads |-> IF t = StartupThread THEN "ld_exists" ELSE "idle"]
    /\ req = [t \in Threads |-> IF t = StartupThread THEN StartupReq ELSE NoReq]
    /\ loc = [t \in Threads |-> IF t = StartupThread THEN [InitLoc EXCEPT !.rid = 1] ELSE InitLoc]
    /\ resp = NoResp
    /\ nextRefresh = 2
    /\ hist = InitHist
    /\ budget = 0

(***************************************************************************)
(* Helpers of the actions.                                                 *)
(***************************************************************************)
TrainPcs == {"tp_prepare", "tp_dump_begin", "tp_dump_end", "tp_upload",
             "wp_write", "wp_replace", "al_append"}

\* the stages of train_and_promote before its step 9 (write_production)
PreCommitPcs == {"tp_prepare", "tp_dump_begin", "tp_dump_end", "tp_upload"}

\* where a call can fail before step 9
PreCommitFailures == {"tp_validate", "tp_dataset", "tp_readcsv", "tp_track",
                      "tp_dump_begin", "tp_dump_end", "tp_upload"}

InTrain(t) == pc[t] \in TrainPcs

AllDirs == {"metadata", "models/production"}

\* ensure_dirs: mkdir(parents=True, exist_ok=True) of both directories
ensure_dirs(d) == d \cup AllDirs

\* the status /retrain gives an exception of train_and_promote
RetrainStatus(exc) == IF exc = "ValueError" THEN 422 ELSE 500

ModelTypeSet == {"constant", "mean"}

\* the call of thread t ends with exception exc, raised at stage at; left
\* tells whether the finally block of write_production failed to remove the
\* temporary file
RaiseLeaving(t, exc, at, left) ==
    /\ pc' = [pc EXCEPT ![t] = "idle"]
    /\ resp' = (
            [NoResp EXCEPT !.op = req[t].op,
                           !.status = IF req[t].op = "retrain" THEN RetrainStatus(exc) ELSE 0,
                           !.exc = exc, !.failedAt = at,
                           !.wrote = loc[t].wrote, !.logged = loc[t].logged,
                           !.solo = loc[t].solo, !.run = loc[t].run,
                           !.tmpLeft = left])
    /\ loc' = [loc EXCEPT ![t] = InitLoc]
    /\ req' = [req EXCEPT ![t] = NoReq]

Raise(t, exc, at) == RaiseLeaving(t, exc, at, FALSE)

Goto(t, p) == pc' = [pc EXCEPT ![t] = p]

\* the thread pool gives a request to its first idle worker
FirstIdle(t) == pc[t] = "idle" /\ \A u \in Threads : pc[u] = "idle" => t <= u

\* the checks at the head of train_and_promote: [exc, trainer, model_type]
Validate(trainer, model_type) ==
    LET trainer_clean == Strip(trainer)
        model_type_clean == Lower(Strip(IF model_type = "" THEN "constant" ELSE model_type))
    IN  IF trainer_clean = "" THEN [exc |-> "ValueError", trainer |-> "", model_type |-> ""]
        ELSE IF model_type_clean \notin ModelTypeSet THEN [exc |-> "ValueError", trainer |-> "", model_type |-> ""]
        ELSE [exc |-> "", trainer |-> trainer_clean, model_type |-> model_type_clean]

\* a plausible slip: the directories are created before the arguments are
\* checked
EnterTrainDirsFirst(t, r) ==
    /\ FirstIdle(t)
    /\ budget < MaxOps
    /\ budget' = budget + 1
    /\ dirs' = ensure_dirs(dirs)
    /\ LET v == Validate(r.trainer, r.model_type)
       IN  IF v.exc # ""
           THEN /\ resp' = [NoResp EXCEPT !.op = r.op,
                                          !.status = IF r.op = "retrain" THEN RetrainStatus(v.exc) ELSE 0,
                                          !.exc = v.exc, !.failedAt = "tp_validate"]
                /\ UNCHANGED <<pc, req, loc, hist>>
           ELSE /\ req' = [req EXCEPT ![t] = r]
                /\ Goto(t, "tp_prepare")
                /\ loc' = [loc EXCEPT ![t] = [InitLoc EXCEPT !.trainer = v.trainer,
                                                             !.model_type = v.model_type]]
                /\ resp' = NoResp
                /\ UNCHANGED hist
    /\ UNCHANGED <<prodFile, tmpFile, orphans, retrainLog, artifact, csv, dvcPtr, serving,
                   lock, phase, nextRun, nextRefresh, built, committed, returned>>

\* thread t enters train_and_promote with request r; the arguments are
\* checked before anything else happens
EnterTrain(t, r) ==
    /\ FirstIdle(t)
    /\ budget < MaxOps
    /\ budget' = budget + 1
    /\ LET v == Validate(r.trainer, r.model_type)
       IN  IF v.exc # ""
           THEN /\ resp' = [NoResp EXCEPT !.op = r.op,
                                          !.status = IF r.op = "retrain" THEN RetrainStatus(v.exc) ELSE 0,
                                          !.exc = v.exc, !.failedAt = "tp_validate"]
                /\ UNCHANGED <<pc, req, loc, hist>>
           ELSE /\ req' = [req EXCEPT ![t] = r]
                /\ Goto(t, "tp_prepare")
                /\ loc' = [u \in Threads |->
                             IF u = t
                             THEN [InitLoc EXCEPT !.trainer = v.trainer, !.model_type = v.model_type,
                                                  !.solo = \A w \in Threads \ {t} : req[w].op \notin {"train", "retrain"}]
                             ELSE IF req[u].op \in {"train", "retrain"} THEN [loc[u] EXCEPT !.solo = FALSE]
                             ELSE loc[u]]
                /\ hist' = [hist EXCEPT !.overlap = @ \/ \E w \in Threads \ {t} : InTrain(w)]
                /\ resp' = NoResp
    /\ UNCHANGED <<disk, serving, lock, phase, nextRun, nextRefresh, built, committed, returned>>

(***************************************************************************)
(* src/app/main.py: POST /retrain calls train_and_promote(trainer, 1.5);   *)
(* a caller of the library passes model_type and y_value too.              *)
(***************************************************************************)
StartRetrain(t, trainer) ==
    /\ phase = "serving"
    /\ EnterTrain(t, [NoReq EXCEPT !.op = "retrain", !.trainer = trainer,
                                   !.model_type = "constant", !.y_value = DefaultY])

StartTrain(t, trainer, inp) ==
    /\ EnterTrain(t, [NoReq EXCEPT !.op = "train", !.trainer = trainer,
                                   !.model_type = inp.model_type, !.y_value = inp.y_value])

(***************************************************************************)
(* src/src/train.py: train_and_promote                                     *)
(***************************************************************************)
n_rows(heights) == Len(heights)
mean_height_m(heights) == RatDivInt(RatSum(heights), Len(heights))

\* the model and the record train_and_promote builds for a run
ModelFor(mtype, y, heights, run) ==
    IF mtype = "constant" THEN ConstantModel(y, run) ELSE MeanModel(mean_height_m(heights), run)

\* a plausible slip: the record carries the y_value argument for both
\* variants
MetaForLiteralY(trainer, mtype, y, heights, run) ==
    ProductionMeta(run, trainer, mtype, y, mean_height_m(heights), n_rows(heights))

MetaFor(trainer, mtype, y, heights, run) ==
    ProductionMeta(run, trainer, mtype,
                   IF mtype = "constant" THEN y ELSE mean_height_m(heights),
                   mean_height_m(heights), n_rows(heights))

\* ensure_dirs, _ensure_dataset_materialized, _read_heights_csv_normalized,
\* and the start of the tracking run
TpPrepare(t) ==
    /\ pc[t] = "tp_prepare"
    /\ dirs' = ensure_dirs(dirs)
    /\ \E pull \in PullOutcomes :
          LET m == EnsureDatasetMaterialized(csv, dvcPtr, pull)
              r == ReadHeightsCsvNormalized(m.csv)
          IN  /\ csv' = m.csv
              /\ IF m.exc # ""
                 THEN /\ Raise(t, m.exc, "tp_dataset")
                      /\ UNCHANGED <<nextRun, built>>
                 ELSE IF r.exc # ""
                 THEN /\ Raise(t, r.exc, "tp_readcsv")
                      /\ UNCHANGED <<nextRun, built>>
                 ELSE \/ /\ Raise(t, "MlflowException", "tp_track")
                         /\ UNCHANGED <<nextRun, built>>
                      \/ /\ nextRun' = nextRun + 1
                         /\ built' = Append(built, MetaFor(loc[t].trainer, loc[t].model_type,
                                                           req[t].y_value, r.heights, nextRun))
                         /\ loc' = [loc EXCEPT ![t].run = nextRun,
                                               ![t].heights = r.heights,
                                               ![t].model = ModelFor(loc[t].model_type, req[t].y_value,
                                                                     r.heights, nextRun)]
                         /\ Goto(t, "tp_dump_begin")
                         /\ UNCHANGED <<req>> /\ resp' = NoResp
    /\ UNCHANGED <<prodFile, tmpFile, orphans, retrainLog, artifact, dvcPtr, serving,
                   lock, phase, nextRefresh, committed, returned, hist, budget>>

\* joblib.dump opens models/production/model.pkl for writing: the old
\* content is gone from here on
TpDumpBegin(t) ==
    /\ pc[t] = "tp_dump_begin"
    /\ \/ /\ Raise(t, "OSError", "tp_dump_begin")
          /\ UNCHANGED artifact
       \/ /\ artifact' = [exists |-> TRUE, ok |-> FALSE, model |-> loc[t].model]
          /\ loc' = [u \in Threads |->
                       IF u = t THEN [loc[t] EXCEPT !.raced = \E v \in Threads \ {t} : pc[v] = "tp_dump_end"]
                       ELSE IF pc[u] = "tp_dump_end" THEN [loc[u] EXCEPT !.raced = TRUE]
                       ELSE loc[u]]
          /\ Goto(t, "tp_dump_end")
          /\ UNCHANGED <<req>> /\ resp' = NoResp
    /\ UNCHANGED <<dirs, prodFile, tmpFile, orphans, retrainLog, csv, dvcPtr, serving,
                   lock, phase, nextRun, nextRefresh, history, budget>>

\* joblib.dump finishes: the file holds the pickled model, unless another
\* writer had the file open meanwhile (then the bytes may be mixed), or the
\* write fails half way
TpDumpEnd(t) ==
    /\ pc[t] = "tp_dump_end"
    /\ \/ /\ Raise(t, "OSError", "tp_dump_end")
          /\ UNCHANGED artifact
       \/ /\ \/ artifact' = [exists |-> TRUE, ok |-> TRUE, model |-> loc[t].model]
             \/ /\ loc[t].raced
                /\ artifact' = [exists |-> TRUE, ok |-> FALSE, model |-> loc[t].model]
          /\ Goto(t, "tp_upload")
          /\ UNCHANGED <<req, loc>> /\ resp' = NoResp
    /\ UNCHANGED <<dirs, prodFile, tmpFile, orphans, retrainLog, csv, dvcPtr, serving,
                   lock, phase, nextRun, nextRefresh, history, budget>>

\* a plausible slip: the pointer is written before the artifact is archived
TpUploadAfterCommit(t) ==
    /\ pc[t] = "tp_upload"
    /\ dirs' = ensure_dirs(dirs)
    /\ prodFile' = FileOf(built[loc[t].run], PayloadChunks)
    /\ committed' = Append(committed, loc[t].run)
    /\ \/ /\ Raise(t, "MlflowException", "tp_upload")
       \/ /\ loc' = [loc EXCEPT ![t].meta = built[loc[t].run], ![t].wrote = TRUE]
          /\ Goto(t, "al_append")
          /\ UNCHANGED <<req>> /\ resp' = NoResp
    /\ UNCHANGED <<tmpFile, orphans, retrainLog, artifact, csv, dvcPtr, serving,
                   lock, phase, nextRun, nextRefresh, built, returned, hist, budget>>

\* mlflow.log_artifact and the end of the run; production_meta is built and
\* write_production starts: ensure_dirs, json.dumps and tempfile.mkstemp give
\* an empty temporary file next to the target
TpUpload(t) ==
    /\ pc[t] = "tp_upload"
    /\ \/ /\ Raise(t, "MlflowException", "tp_upload")
          /\ UNCHANGED <<dirs, tmpFile>>
       \/ /\ dirs' = ensure_dirs(dirs)
          /\ Raise(t, "OSError", "wp_mkstemp")
          /\ UNCHANGED tmpFile
       \/ /\ dirs' = ensure_dirs(dirs)
          /\ tmpFile' = [tmpFile EXCEPT ![t] = FileOf(built[loc[t].run], 0)]
          /\ loc' = [loc EXCEPT ![t].meta = built[loc[t].run]]
          /\ Goto(t, "wp_write")
          /\ UNCHANGED <<req>> /\ resp' = NoResp
    /\ UNCHANGED <<prodFile, orphans, retrainLog, artifact, csv, dvcPtr, serving,
                   lock, phase, nextRun, nextRefresh, history, budget>>

(***************************************************************************)
(* src/src/registry.py: write_production                                   *)
(***************************************************************************)
\* a plausible slip: the payload is written to the target itself
WpWriteInPlace(t) ==
    /\ pc[t] = "wp_write"
    /\ \/ /\ prodFile' = FileOf(loc[t].meta,
                                IF prodFile.exists /\ prodFile.rec = loc[t].meta
                                THEN prodFile.chunks + 1 ELSE 1)
          /\ tmpFile' = [tmpFile EXCEPT ![t] =
                            IF tmpFile[t].chunks + 1 = PayloadChunks THEN AbsentFile
                            ELSE [tmpFile[t] EXCEPT !.chunks = @ + 1]]
          /\ Goto(t, IF tmpFile[t].chunks + 1 = PayloadChunks THEN "al_append" ELSE "wp_write")
          /\ loc' = [loc EXCEPT ![t].wrote = TRUE]
          /\ committed' = IF tmpFile[t].chunks + 1 = PayloadChunks
                          THEN Append(committed, loc[t].run) ELSE committed
          /\ UNCHANGED <<req>> /\ resp' = NoResp
       \/ /\ tmpFile' = [tmpFile EXCEPT ![t] = AbsentFile]
          /\ Raise(t, "OSError", "wp_write")
          /\ UNCHANGED <<prodFile, committed>>
    /\ UNCHANGED <<dirs, orphans, retrainLog, artifact, csv, dvcPtr, serving,
                   lock, phase, nextRun, nextRefresh, built, returned, hist, budget>>

\* a plausible slip: no finally block, the temporary file of a failed call
\* stays where it is
FinallyKeep(t, removed) ==
    /\ tmpFile' = [tmpFile EXCEPT ![t] = AbsentFile]
    /\ orphans' = orphans \cup {tmpFile[t]}
    /\ UNCHANGED budget

\* the finally block after a failure: the temporary file exists and
\* os.remove deletes it; or os.remove raises, the exception is swallowed and
\* the file stays in the metadata directory, owned by no call
FinallyRemove(t, removed) ==
    /\ tmpFile' = [tmpFile EXCEPT ![t] = AbsentFile]
    /\ IF removed
       THEN /\ orphans' = orphans
            /\ UNCHANGED budget
       ELSE /\ budget < MaxOps
            /\ budget' = budget + 1
            /\ orphans' = orphans \cup {tmpFile[t]}

\* f.write, f.flush, os.fsync: the payload reaches the temporary file chunk
\* by chunk; when a chunk fails the finally block runs and the exception
\* goes on to the caller
WpWrite(t) ==
    /\ pc[t] = "wp_write"
    /\ \/ /\ tmpFile' = [tmpFile EXCEPT ![t].chunks = @ + 1]
          /\ Goto(t, IF tmpFile[t].chunks + 1 = PayloadChunks THEN "wp_replace" ELSE "wp_write")
          /\ UNCHANGED <<req, loc>> /\ resp' = NoResp
          /\ UNCHANGED <<orphans, budget>>
       \/ \E removed \in BOOLEAN :
             /\ FinallyRemove(t, removed)
             /\ RaiseLeaving(t, "OSError", "wp_write", ~removed)
    /\ UNCHANGED <<dirs, prodFile, retrainLog, artifact, csv, dvcPtr, serving,
                   lock, phase, nextRun, nextRefresh, history>>

\* a plausible slip: the stored record is updated field by field and one
\* field keeps its old value
WpReplaceMerge(t) ==
    /\ pc[t] = "wp_replace"
    /\ prodFile' = IF prodFile.exists
                   THEN FileOf([tmpFile[t].rec EXCEPT !.y_value = prodFile.rec.y_value], tmpFile[t].chunks)
                   ELSE tmpFile[t]
    /\ tmpFile' = [tmpFile EXCEPT ![t] = AbsentFile]
    /\ committed' = Append(committed, loc[t].run)
    /\ loc' = [loc EXCEPT ![t].wrote = TRUE]
    /\ Goto(t, "al_append")
    /\ UNCHANGED <<dirs, orphans, retrainLog, artifact, csv, dvcPtr, serving, lock, phase,
                   req, nextRun, nextRefresh, built, returned, hist, budget>> /\ resp' = NoResp

\* os.replace(tmp_path, target): the target is the temporary file from here
\* on, in one step, and the finally block finds no temporary file; or the
\* call fails, the target is as it was, and the finally block runs
WpReplace(t) ==
    /\ pc[t] = "wp_replace"
    /\ \/ /\ prodFile' = tmpFile[t]
          /\ tmpFile' = [tmpFile EXCEPT ![t] = AbsentFile]
          /\ committed' = Append(committed, loc[t].run)
          /\ loc' = [loc EXCEPT ![t].wrote = TRUE]
          /\ Goto(t, "al_append")
          /\ UNCHANGED <<req, orphans, budget>> /\ resp' = NoResp
       \/ /\ \E removed \in BOOLEAN :
                /\ FinallyRemove(t, removed)
                /\ RaiseLeaving(t, "OSError", "wp_replace", ~removed)
          /\ UNCHANGED <<prodFile, committed>>
    /\ UNCHANGED <<dirs, retrainLog, artifact, csv, dvcPtr, serving,
                   lock, phase, nextRun, nextRefresh, built, returned, hist>>

(***************************************************************************)
(* src/src/registry.py: append_retrain_log; then train_and_promote returns *)
(***************************************************************************)
\* a plausible slip: the log is opened with mode "w"
append_line_truncating(log, entry) == <<entry>>

\* a plausible slip: the new line goes to the head of the log
append_line_at_head(log, entry) == <<entry>> \o log

\* the file is opened with mode "a": the line goes to its end
append_line(log, entry) == Append(log, entry)

\* what the caller of train_and_promote does with the record returned:
\* a library caller is done, /retrain goes on to _load_model
AfterTrain(t) ==
    IF req[t].op = "retrain"
    THEN /\ Goto(t, "ld_exists")
         /\ loc' = [loc EXCEPT ![t].logged = TRUE, ![t].rid = nextRefresh]
         /\ nextRefresh' = nextRefresh + 1
         /\ UNCHANGED <<req>> /\ resp' = NoResp
    ELSE /\ Goto(t, "idle")
         /\ resp' = (
                 [NoResp EXCEPT !.op = "train", !.status = 200, !.meta = loc[t].meta,
                                !.wrote = TRUE, !.logged = TRUE, !.solo = loc[t].solo,
                                !.run = loc[t].run])
         /\ loc' = [loc EXCEPT ![t] = InitLoc]
         /\ req' = [req EXCEPT ![t] = NoReq]
         /\ UNCHANGED nextRefresh

\* a plausible slip: when the append fails the pointer is put back to the
\* record before this promotion
AlAppendRollback(t) ==
    /\ pc[t] = "al_append"
    /\ dirs' = ensure_dirs(dirs)
    /\ \/ /\ Raise(t, "OSError", "al_append")
          /\ prodFile' = IF Len(committed) >= 2
                         THEN FileOf(built[committed[Len(committed) - 1]], PayloadChunks)
                         ELSE AbsentFile
          /\ hist' = [hist EXCEPT !.step9lost = TRUE]
          /\ UNCHANGED <<retrainLog, returned, nextRefresh>>
       \/ /\ retrainLog' = append_line(retrainLog, loc[t].meta)
          /\ returned' = Append(returned, loc[t].run)
          /\ AfterTrain(t)
          /\ UNCHANGED <<hist, prodFile>>
    /\ UNCHANGED <<tmpFile, orphans, artifact, csv, dvcPtr, serving,
                   lock, phase, nextRun, built, committed, budget>>

\* append_retrain_log, then the return of train_and_promote; a failure of
\* the append goes to the caller and the pointer stays as write_production
\* left it
AlAppend(t) ==
    /\ pc[t] = "al_append"
    /\ dirs' = ensure_dirs(dirs)
    /\ \/ /\ Raise(t, "OSError", "al_append")
          /\ hist' = [hist EXCEPT !.step9lost = TRUE]
          /\ UNCHANGED <<retrainLog, returned, nextRefresh>>
       \/ /\ retrainLog' = append_line(retrainLog, loc[t].meta)
          /\ returned' = Append(returned, loc[t].run)
          /\ AfterTrain(t)
          /\ UNCHANGED hist
    /\ UNCHANGED <<prodFile, tmpFile, orphans, artifact, csv, dvcPtr, serving,
                   lock, phase, nextRun, built, committed, budget>>

(***************************************************************************)
(* src/app/main.py: _state_lock                                            *)
(***************************************************************************)
\* a plausible slip: the globals are accessed without taking the lock
LockIgnored(t) == TRUE

\* with _state_lock: the thread waits until the lock is free
LockAvailable(t) == lock = NoThread

Acquire(t) == LockAvailable(t) /\ lock' = t

Release(t) == lock' = NoThread

(***************************************************************************)
(* src/app/main.py: _load_model                                            *)
(***************************************************************************)
ErrNone == ""
ErrNoModelYet == "No production model available yet. Call POST /retrain first to create and promote a model."
ErrLoadFailed == "Failed to load production model"

\* read_production: path.exists()
LdExists(t) ==
    /\ pc[t] = "ld_exists"
    /\ IF prodFile.exists
       THEN /\ Goto(t, "ld_read")
            /\ loc' = [loc EXCEPT ![t].seen = Len(committed)]
       ELSE /\ Goto(t, "ld_artifact")
            /\ loc' = [loc EXCEPT ![t].seen = Len(committed), ![t].meta = NoRecord]
    /\ UNCHANGED <<disk, serving, lock, phase, req, nextRun, nextRefresh, history, budget>> /\ resp' = NoResp

\* read_production: read_text, strip, json.loads
LdRead(t) ==
    /\ pc[t] = "ld_read"
    /\ loc' = [loc EXCEPT ![t].meta = read_production(prodFile)]
    /\ Goto(t, "ld_artifact")
    /\ UNCHANGED <<disk, serving, lock, phase, req, nextRun, nextRefresh, history, budget>> /\ resp' = NoResp

\* joblib.load of the artifact and the hasattr check: [model, err]
LoadArtifact(meta, a) ==
    IF Strip(meta.model_path) = "" THEN [model |-> NoModel, err |-> ErrNoModelYet]
    ELSE IF ~a.exists THEN [model |-> NoModel, err |-> ErrLoadFailed]
    ELSE IF ~a.ok THEN [model |-> NoModel, err |-> ErrLoadFailed]
    ELSE IF a.model.cls \notin {"ConstantModel", "MeanModel"} THEN [model |-> NoModel, err |-> ErrLoadFailed]
    ELSE [model |-> a.model, err |-> ErrNone]

LdArtifact(t) ==
    /\ pc[t] = "ld_artifact"
    /\ LET r == LoadArtifact(loc[t].meta, artifact)
       IN  loc' = [loc EXCEPT ![t].model = r.model, ![t].err = r.err]
    /\ Goto(t, "ld_lock")
    /\ UNCHANGED <<disk, serving, lock, phase, req, nextRun, nextRefresh, history, budget>> /\ resp' = NoResp

\* with _state_lock: _production_meta = ...
LdSetMeta(t) ==
    /\ pc[t] = "ld_lock"
    /\ Acquire(t)
    /\ sMeta' = loc[t].meta
    /\ sTag' = [sTag EXCEPT ![2] = loc[t].rid]
    /\ Goto(t, "ld_set_model")
    /\ UNCHANGED <<disk, sModel, sErr, phase, req, loc, nextRun, nextRefresh, history,
                   budget>> /\ resp' = NoResp

\* a plausible slip: a failed load keeps the model that was serving
LdSetModelSticky(t) ==
    /\ pc[t] = "ld_set_model"
    /\ sModel' = IF loc[t].model = NoModel THEN sModel ELSE loc[t].model
    /\ sTag' = [sTag EXCEPT ![1] = loc[t].rid]
    /\ Goto(t, "ld_set_err")
    /\ UNCHANGED <<disk, sMeta, sErr, lock, phase, req, loc, nextRun, nextRefresh, history, budget>> /\ resp' = NoResp

LdSetModel(t) ==
    /\ pc[t] = "ld_set_model"
    /\ sModel' = loc[t].model
    /\ sTag' = [sTag EXCEPT ![1] = loc[t].rid]
    /\ Goto(t, "ld_set_err")
    /\ UNCHANGED <<disk, sMeta, sErr, lock, phase, req, loc, nextRun, nextRefresh,
                   history, budget>> /\ resp' = NoResp

\* the last assignment and the end of the with block; the startup hook is
\* done, /retrain goes on to its check
LdSetErr(t) ==
    /\ pc[t] = "ld_set_err"
    /\ sErr' = loc[t].err
    /\ sTag' = [sTag EXCEPT ![3] = loc[t].rid]
    /\ Release(t)
    /\ IF req[t].op = "startup"
       THEN /\ Goto(t, "idle")
            /\ phase' = "serving"
            /\ loc' = [loc EXCEPT ![t] = InitLoc]
            /\ req' = [req EXCEPT ![t] = NoReq]
       ELSE /\ Goto(t, "rt_lock")
            /\ UNCHANGED <<phase, loc, req>>
    /\ UNCHANGED <<disk, sModel, sMeta, nextRun, nextRefresh, history, budget>> /\ resp' = NoResp

(***************************************************************************)
(* src/app/main.py: the end of POST /retrain                               *)
(***************************************************************************)
\* with _state_lock: the check of _model and the copy of _production_meta
RtCheck(t) ==
    /\ pc[t] = "rt_lock"
    /\ LockAvailable(t)
    /\ UNCHANGED lock
    /\ Goto(t, "idle")
    /\ resp' = (
            IF sModel = NoModel
            THEN [NoResp EXCEPT !.op = "retrain", !.status = 503,
                                !.detail = IF sErr # "" THEN sErr ELSE "Model not available after retrain.",
                                !.wrote = TRUE, !.logged = TRUE, !.solo = loc[t].solo,
                                !.run = loc[t].run]
            ELSE [NoResp EXCEPT !.op = "retrain", !.status = 200,
                                !.meta = IF sMeta # NoRecord THEN sMeta ELSE loc[t].meta,
                                !.wrote = TRUE, !.logged = TRUE, !.solo = loc[t].solo,
                                !.run = loc[t].run])
    /\ loc' = [loc EXCEPT ![t] = InitLoc]
    /\ req' = [req EXCEPT ![t] = NoReq]
    /\ UNCHANGED <<disk, serving, phase, nextRun, nextRefresh, history, budget>>

(***************************************************************************)
(* src/app/main.py: POST /predict and GET /health                          *)
(***************************************************************************)
StartRequest(t, r, p) ==
    /\ phase = "serving"
    /\ FirstIdle(t)
    /\ budget < MaxOps
    /\ budget' = budget + 1
    /\ req' = [req EXCEPT ![t] = r]
    /\ resp' = NoResp
    /\ Goto(t, p)
    /\ UNCHANGED <<disk, serving, lock, phase, loc, nextRun, nextRefresh, history>>

StartPredict(t, h) == StartRequest(t, [NoReq EXCEPT !.op = "predict", !.height_cm = h], "pr_lock")

StartHealth(t) == StartRequest(t, [NoReq EXCEPT !.op = "health"], "he_lock")

\* with _state_lock: model_obj = _model
PrModel(t) ==
    /\ pc[t] = "pr_lock"
    /\ Acquire(t)
    /\ loc' = [loc EXCEPT ![t].rModel = sModel, ![t].rTag[1] = sTag[1]]
    /\ Goto(t, "pr_meta")
    /\ UNCHANGED <<disk, serving, phase, req, nextRun, nextRefresh, history, budget>> /\ resp' = NoResp

PrMeta(t) ==
    /\ pc[t] = "pr_meta"
    /\ loc' = [loc EXCEPT ![t].rMeta = sMeta, ![t].rTag[2] = sTag[2]]
    /\ Goto(t, "pr_err")
    /\ UNCHANGED <<disk, serving, lock, phase, req, nextRun, nextRefresh, history, budget>> /\ resp' = NoResp

\* the response of /predict to the snapshot it took
PredictResponse(model, meta, err, height_cm) ==
    IF model = NoModel
    THEN [NoResp EXCEPT !.op = "predict", !.status = 503,
                        !.detail = IF err # "" THEN err ELSE ErrNoModelYet]
    ELSE [NoResp EXCEPT !.op = "predict", !.status = 200,
                        !.y = predict_one(model, height_cm),
                        !.model = model, !.meta = meta]

\* the last read under the lock, then the response
PrErr(t) ==
    /\ pc[t] = "pr_err"
    /\ Release(t)
    /\ resp' = (
            [PredictResponse(loc[t].rModel, loc[t].rMeta, sErr, req[t].height_cm)
               EXCEPT !.tag = <<loc[t].rTag[1], loc[t].rTag[2], sTag[3]>>])
    /\ Goto(t, "idle")
    /\ loc' = [loc EXCEPT ![t] = InitLoc]
    /\ req' = [req EXCEPT ![t] = NoReq]
    /\ UNCHANGED <<disk, serving, phase, nextRun, nextRefresh, history, budget>>

\* with _state_lock: the copy of _production_meta
HeRead(t) ==
    /\ pc[t] = "he_lock"
    /\ LockAvailable(t)
    /\ UNCHANGED lock
    /\ resp' = ( [NoResp EXCEPT !.op = "health", !.status = 200, !.meta = sMeta,
                                                  !.tag = <<0, sTag[2], 0>>])
    /\ Goto(t, "idle")
    /\ loc' = [loc EXCEPT ![t] = InitLoc]
    /\ req' = [req EXCEPT ![t] = NoReq]
    /\ UNCHANGED <<disk, serving, phase, nextRun, nextRefresh, history, budget>>

(***************************************************************************)
(* The process is killed and started again: memory is lost, files stay,    *)
(* and the startup hook runs _load_model before any request is served.     *)
(***************************************************************************)
Crash ==
    /\ budget < MaxOps
    /\ budget' = budget + 1
    /\ orphans' = orphans \cup {tmpFile[t] : t \in {u \in Threads : tmpFile[u].exists}}
    /\ tmpFile' = [t \in Threads |-> AbsentFile]
    /\ sModel' = NoModel
    /\ sMeta' = NoRecord
    /\ sErr' = ""
    /\ sTag' = <<0, 0, 0>>
    /\ lock' = NoThread
    /\ phase' = "startup"
    /\ pc' = [t \in Threads |-> IF t = StartupThread THEN "ld_exists" ELSE "idle"]
    /\ req' = [t \in Threads |-> IF t = StartupThread THEN StartupReq ELSE NoReq]
    /\ loc' = [t \in Threads |-> IF t = StartupThread THEN [InitLoc EXCEPT !.rid = nextRefresh] ELSE InitLoc]
    /\ nextRefresh' = nextRefresh + 1
    /\ resp' = NoResp
    /\ hist' = [hist EXCEPT !.step9lost = @ \/ \E t \in Threads : InTrain(t) /\ loc[t].wrote]
    /\ UNCHANGED <<dirs, prodFile, retrainLog, artifact, csv, dvcPtr, nextRun, built, committed, returned>>

Next ==
    \/ \E t \in Threads, trainer \in Trainers : StartRetrain(t, trainer)
    \/ \E t \in Threads, trainer \in Trainers, inp \in TrainInputs : StartTrain(t, trainer, inp)
    \/ \E t \in Threads : TpPrepare(t)
    \/ \E t \in Threads : TpDumpBegin(t)
    \/ \E t \in Threads : TpDumpEnd(t)
    \/ \E t \in Threads : TpUpload(t)
    \/ \E t \in Threads : WpWrite(t)
    \/ \E t \in Threads : WpReplace(t)
    \/ \E t \in Threads : AlAppend(t)
    \/ \E t \in Threads : LdExists(t)
    \/ \E t \in Threads : LdRead(t)
    \/ \E t \in Threads : LdArtifact(t)
    \/ \E t \in Threads : LdSetMeta(t)
    \/ \E t \in Threads : LdSetModel(t)
    \/ \E t \in Threads : LdSetErr(t)
    \/ \E t \in Threads : RtCheck(t)
    \/ \E t \in Threads, h \in Heights : StartPredict(t, h)
    \/ \E t \in Threads : StartHealth(t)
    \/ \E t \in Threads : PrModel(t)
    \/ \E t \in Threads : PrMeta(t)
    \/ \E t \in Threads : PrErr(t)
    \/ \E t \in Threads : HeRead(t)
    \/ Crash

Spec == Init /\ [][Next]_vars

(***************************************************************************)
(* Vocabulary of the properties.                                           *)
(***************************************************************************)
Range(q) == {q[i] : i \in 1..Len(q)}

\* the record the i-th pointer update made current; the empty record before
\* the first
RecAt(i) == IF i = 0 THEN NoRecord ELSE built[committed[i]]

CurrentRec == RecAt(Len(committed))

\* positions of _load_model after read_production has returned
AfterReadPcs == {"ld_artifact", "ld_lock", "ld_set_model", "ld_set_err"}

Quiescent == \A t \in Threads : ~InTrain(t)

LogRuns == [i \in 1..Len(retrainLog) |-> retrainLog[i].run_id]

\* the position of run r among the pointer updates
CommitPos(r) == CHOOSE i \in 1..Len(committed) : committed[i] = r

(***************************************************************************)
(* C1: whatever the interleaving of write_production with readers, a       *)
(* read_production returns a record that was the current one at some       *)
(* moment between its start and its end: the record before a write or the  *)
(* record after it, never a partial or empty content in between.           *)
(***************************************************************************)
C1_ReadsAreAtomic ==
    \A t \in Threads :
        pc[t] \in AfterReadPcs =>
            \E i \in loc[t].seen..Len(committed) : loc[t].meta = RecAt(i)

\* a reader got the new record of a write that took effect during its read
C1_Witness ==
    \E t \in Threads :
        /\ pc[t] = "ld_artifact"
        /\ loc[t].seen < Len(committed)
        /\ loc[t].meta = CurrentRec
        /\ loc[t].meta # RecAt(loc[t].seen)

(***************************************************************************)
(* C2: after a crash that left a temporary file behind (written in part    *)
(* or in full, not yet renamed), the pointer still reads as the record     *)
(* that was current, and no reader gets the content of a temporary file.   *)
(***************************************************************************)
C2_CrashBeforeRenameKeepsPrior ==
    orphans # {} =>
        /\ read_production(prodFile) = CurrentRec
        /\ \A o \in orphans :
              /\ o.rec.run_id \notin Range(committed)
              /\ read_production(prodFile).run_id # o.rec.run_id
              /\ \A t \in Threads : pc[t] \in AfterReadPcs => loc[t].meta.run_id # o.rec.run_id
              /\ sMeta.run_id # o.rec.run_id

\* the process came back after a crash that left a fully written temporary
\* file, and its refresh read the prior record
C2_Witness ==
    /\ \E o \in orphans : o.chunks = PayloadChunks
    /\ phase = "serving"
    /\ sMeta = EarlierRec
    /\ read_production(prodFile) = EarlierRec

(***************************************************************************)
(* C3: no step a train_and_promote call takes before its step 9, the       *)
(* failing step included, changes the production pointer or the log.       *)
(***************************************************************************)
PreCommitStep(t) ==
    \/ pc[t] \in PreCommitPcs /\ pc'[t] # pc[t]
    \/ pc[t] = "idle" /\ resp'.failedAt = "tp_validate"

C3_FailureBeforeCommitKeepsRecord ==
    [][\A t \in Threads :
          PreCommitStep(t) => /\ prodFile' = prodFile
                              /\ read_production(prodFile') = read_production(prodFile)
                              /\ retrainLog' = retrainLog]_vars

\* a call failed at the upload of its artifact: pointer and log are those of
\* the earlier promotion
C3_Witness ==
    /\ resp.failedAt = "tp_upload"
    /\ resp.exc = "MlflowException"
    /\ read_production(prodFile) = EarlierRec
    /\ retrainLog = <<EarlierRec>>
    /\ artifact.model.run # EarlierRec.run_id

(***************************************************************************)
(* C4: a successful /predict is tagged with the record of the promotion    *)
(* that produced the model which computed it, and its y is the y_value of  *)
(* that record.                                                            *)
(***************************************************************************)
C4_PredictionMatchesItsRecord ==
    (resp.op = "predict" /\ resp.status = 200) =>
        /\ resp.model.run = resp.meta.run_id
        /\ resp.y = resp.meta.y_value

(***************************************************************************)
(* C5: the three parts of the ServingState a /predict reads were installed *)
(* by one and the same refresh.                                            *)
(***************************************************************************)
C5_SnapshotNotTorn ==
    (resp.op = "predict") =>
        /\ resp.tag[1] = resp.tag[2]
        /\ resp.tag[2] = resp.tag[3]
        /\ resp.tag[1] # 0

\* a /predict answered while a refresh was waiting to install its result
C5_Witness ==
    /\ resp.op = "predict"
    /\ resp.status = 200
    /\ \E u \in Threads : pc[u] = "ld_lock" /\ loc[u].meta # resp.meta

(***************************************************************************)
(* C6: when the promotions so far were sequential and each ran to its end, *)
(* the pointer reads as the record of the last one and the log holds one   *)
(* entry per promotion, in call order (run ids are handed out in call      *)
(* order).                                                                 *)
(***************************************************************************)
C6_SequentialPromotions ==
    (Quiescent /\ ~hist.overlap /\ ~hist.step9lost) =>
        /\ Len(retrainLog) = Len(returned)
        /\ \A i \in 1..Len(retrainLog) : retrainLog[i] = built[returned[i]]
        /\ \A i, j \in 1..Len(retrainLog) : i < j => retrainLog[i].run_id < retrainLog[j].run_id
        /\ read_production(prodFile) = IF retrainLog = <<>> THEN NoRecord ELSE Last(retrainLog)

\* two promotions, one after the other, on top of the earlier one
C6_Witness ==
    /\ Quiescent /\ ~hist.overlap /\ ~hist.step9lost
    /\ Len(retrainLog) = 3
    /\ read_production(prodFile) = retrainLog[3]
    /\ retrainLog[2] # retrainLog[3]

(***************************************************************************)
(* C7, as claimed: for any interleaving of calls the log holds no          *)
(* promotion twice, its entries are in the order of their pointer updates, *)
(* and once all calls have finished (none of them having failed or been    *)
(* killed between its pointer update and its append) its last entry        *)
(* describes the record the pointer reads as.                              *)
(***************************************************************************)
C7_LogFollowsPointerAlways ==
    /\ \A i, j \in 1..Len(retrainLog) : i # j => LogRuns[i] # LogRuns[j]
    /\ \A i \in 1..Len(retrainLog) : LogRuns[i] \in Range(committed)
    /\ \A i, j \in 1..Len(retrainLog) : i < j => CommitPos(LogRuns[i]) < CommitPos(LogRuns[j])
    /\ (Quiescent /\ ~hist.step9lost /\ retrainLog # <<>>) =>
          Last(retrainLog) = read_production(prodFile)

(***************************************************************************)
(* C7, amended: the log holds no promotion twice and every entry is the    *)
(* record of a pointer update that took effect; when no two calls ran      *)
(* concurrently the entries are in the order of their pointer updates;     *)
(* and when moreover no call failed or was killed between its pointer      *)
(* update and its append, the last entry describes the record the pointer  *)
(* reads as once all calls have finished.                                  *)
(***************************************************************************)
C7_LogFollowsPointerWhenSequential ==
    /\ \A i, j \in 1..Len(retrainLog) : i # j => LogRuns[i] # LogRuns[j]
    /\ \A i \in 1..Len(retrainLog) :
          LogRuns[i] \in Range(committed) /\ retrainLog[i] = built[LogRuns[i]]
    /\ ~hist.overlap =>
          \A i, j \in 1..Len(retrainLog) : i < j => CommitPos(LogRuns[i]) < CommitPos(LogRuns[j])
    /\ (Quiescent /\ ~hist.overlap /\ ~hist.step9lost /\ retrainLog # <<>>) =>
          Last(retrainLog) = read_production(prodFile)

\* sequential calls, one of which updated the pointer and failed to append:
\* the log is a proper subsequence of the pointer updates
C7_Witness ==
    /\ ~hist.overlap
    /\ Quiescent
    /\ Len(retrainLog) = 2
    /\ Len(committed) = 3
    /\ LogRuns[2] = committed[3]

(***************************************************************************)
(* C10: the pointer holds nothing before the first pointer update and      *)
(* afterwards, in full, the record of the promotion whose os.replace took  *)
(* effect last; never a mixture of the fields of two promotions.           *)
(***************************************************************************)
C10_LastWriteWins ==
    /\ committed = <<>> => prodFile = AbsentFile
    /\ committed # <<>> =>
          /\ prodFile = FileOf(built[Last(committed)], PayloadChunks)
          /\ \A f \in DOMAIN prodFile.rec : prodFile.rec[f] = built[prodFile.rec.run_id][f]

\* two calls raced and the one that started later wrote first: the pointer
\* holds the record of the call that wrote last
C10_Witness ==
    /\ hist.overlap
    /\ Len(committed) = 3
    /\ committed[2] > committed[3]
    /\ read_production(prodFile).run_id = committed[3]
    /\ read_production(prodFile).model_type # built[committed[2]].model_type

(***************************************************************************)
(* A single refresh, from every registry content, every artifact           *)
(* condition and every ServingState the process may hold before it.        *)
(***************************************************************************)
RegistryContents ==
    { AbsentFile,
      FileOf(EarlierRec, 0),                                        \* empty file
      FileOf(EarlierRec, PayloadChunks - 1),                        \* truncated
      FileOf([EarlierRec EXCEPT !.model_path = ""], PayloadChunks), \* no model_path
      FileOf([EarlierRec EXCEPT !.model_path = " "], PayloadChunks),
      FileOf(EarlierRec, PayloadChunks),
      ForeignFile("blank"), ForeignFile("array"), ForeignFile("garbage"),
      ForeignFile("unreadable") }

ArtifactConditions ==
    { AbsentArtifact,
      [exists |-> TRUE, ok |-> FALSE, model |-> ConstantModel(DefaultY, 1)],
      [exists |-> TRUE, ok |-> TRUE, model |-> [cls |-> "dict", value |-> <<0, 1>>, run |-> 1]],
      [exists |-> TRUE, ok |-> TRUE, model |-> ConstantModel(DefaultY, 1)] }

OlderRec == [EarlierRec EXCEPT !.model_type = "mean", !.y_value = <<7, 4>>]

ServingStates ==
    { [kind |-> "Uninitialized", model |-> NoModel, meta |-> NoRecord, err |-> ErrNone],
      [kind |-> "NoModel", model |-> NoModel, meta |-> NoRecord, err |-> ErrNoModelYet],
      [kind |-> "LoadFailed", model |-> NoModel, meta |-> OlderRec, err |-> ErrLoadFailed],
      [kind |-> "Ready", model |-> MeanModel(<<7, 4>>, 1), meta |-> OlderRec, err |-> ErrNone] }

InitRefresh ==
    /\ dirs = AllDirs
    /\ prodFile \in RegistryContents
    /\ artifact \in ArtifactConditions
    /\ \E st \in ServingStates :
          /\ sModel = st.model
          /\ sMeta = st.meta
          /\ sErr = st.err
          /\ hist = [InitHist EXCEPT !.before = st.kind]
    /\ tmpFile = [t \in Threads |-> AbsentFile]
    /\ orphans = {}
    /\ retrainLog = <<EarlierRec>>
    /\ csv = CsvCm /\ dvcPtr = TRUE
    /\ sTag = <<0, 0, 0>>
    /\ lock = NoThread
    /\ phase = "startup"
    /\ pc = [t \in Threads |-> IF t = StartupThread THEN "ld_exists" ELSE "idle"]
    /\ req = [t \in Threads |-> IF t = StartupThread THEN StartupReq ELSE NoReq]
    /\ loc = [t \in Threads |-> IF t = StartupThread THEN [InitLoc EXCEPT !.rid = 1] ELSE InitLoc]
    /\ resp = NoResp
    /\ nextRun = 2
    /\ nextRefresh = 2
    /\ built = <<EarlierRec>>
    /\ committed = <<1>>
    /\ returned = <<1>>
    /\ budget = 0

NextRefresh ==
    \/ \E t \in Threads : LdExists(t)
    \/ \E t \in Threads : LdRead(t)
    \/ \E t \in Threads : LdArtifact(t)
    \/ \E t \in Threads : LdSetMeta(t)
    \/ \E t \in Threads : LdSetModel(t)
    \/ \E t \in Threads : LdSetErr(t)

SpecRefresh == InitRefresh /\ [][NextRefresh]_vars

IsReady == sModel # NoModel /\ sErr = ErrNone
IsNoModel == sModel = NoModel /\ sErr = ErrNoModelYet
IsLoadFailed == sModel = NoModel /\ sErr = ErrLoadFailed

\* the registry holds a whole record that names an artifact
RegistryUsable ==
    /\ prodFile.exists
    /\ prodFile.chunks = PayloadChunks
    /\ prodFile.rec.model_path \notin {"", " "}

\* the artifact is there, deserializes, and has the prediction capability
ArtifactUsable ==
    /\ artifact.exists
    /\ artifact.ok
    /\ artifact.model.cls \in {"ConstantModel", "MeanModel"}

(***************************************************************************)
(* C8: a refresh always goes on to its end, and then the ServingState is   *)
(* exactly one of NoModel, LoadFailed and Ready, the one the registry and  *)
(* the artifact determine, whatever the ServingState was before.           *)
(***************************************************************************)
C8_RefreshReevaluatesFromScratch ==
    /\ phase = "startup" => ENABLED NextRefresh
    /\ phase = "serving" =>
          /\ IsNoModel <=> ~RegistryUsable
          /\ IsLoadFailed <=> (RegistryUsable /\ ~ArtifactUsable)
          /\ IsReady <=> (RegistryUsable /\ ArtifactUsable)
          /\ IsReady => sModel = artifact.model /\ sMeta = prodFile.rec
          /\ sMeta = IF prodFile.exists /\ prodFile.chunks = PayloadChunks
                     THEN prodFile.rec ELSE NoRecord

\* Ready before the refresh, LoadFailed after it: the artifact broke
C8_Witness ==
    /\ phase = "serving"
    /\ hist.before = "Ready"
    /\ IsLoadFailed
    /\ sMeta = EarlierRec

(***************************************************************************)
(* C9, as claimed: as long as no retrain has succeeded a /predict fails    *)
(* with ModelUnavailable; and when a POST /retrain (constant, y_value 1.5) *)
(* that ran alone succeeds, a /predict of any input returns 1.5 paired     *)
(* with the metadata of that retrain.                                      *)
(***************************************************************************)
PredictAfterRetrain ==
    (resp.op = "retrain" /\ resp.status = 200 /\ resp.solo) =>
        /\ resp.meta = built[resp.run]
        /\ resp.meta.model_type = "constant"
        /\ \A h \in Heights :
              LET r == PredictResponse(sModel, sMeta, sErr, h)
              IN  r.status = 200 /\ r.y = DefaultY /\ r.meta = built[resp.run]

IsPrefix(a, b) == Len(a) <= Len(b) /\ SubSeq(b, 1, Len(a)) = a

(***************************************************************************)
(* C11: every step of the system (a step of train_and_promote, of          *)
(* write_production or append_retrain_log, of a refresh, of a request, a   *)
(* crash with its restart) keeps the lines the retrain log had, in place   *)
(* and unchanged: the log before the step is a prefix of the log after it. *)
(***************************************************************************)
C11_LogIsAppendOnly == [][IsPrefix(retrainLog, retrainLog')]_vars

\* a line was appended behind the line an earlier promotion left
C11_Witness ==
    /\ Len(retrainLog) = 2
    /\ retrainLog[1] = EarlierRec
    /\ retrainLog[2] = built[2]

C13_OnlyTheEnumerationPasses ==
    [][ /\ \A t \in Threads :
              (pc[t] = "idle" /\ pc'[t] = "tp_prepare") =>
                  /\ req'[t].trainer \notin {"", " "}
                  /\ req'[t].model_type \in {"constant", "mean"}
                  /\ UNCHANGED <<disk, nextRun, built>>
        /\ resp'.failedAt = "tp_validate" =>
              /\ resp'.exc = "ValueError"
              /\ resp'.op = "retrain" => resp'.status = 422
              /\ UNCHANGED <<disk, nextRun, built, committed, returned>>
      ]_vars

(***************************************************************************)
(* C13, amended: the same, where model_type is compared after trimming     *)
(* and lower-casing (" Mean " passes as mean).                             *)
(***************************************************************************)
C13_ValidationBeforeIO ==
    [][ /\ \A t \in Threads :
              (pc[t] = "idle" /\ pc'[t] = "tp_prepare") =>
                  /\ Strip(req'[t].trainer) # ""
                  /\ Lower(Strip(req'[t].model_type)) \in {"constant", "mean"}
                  /\ UNCHANGED <<disk, nextRun, built>>
        /\ resp'.failedAt = "tp_validate" =>
              /\ resp'.exc = "ValueError"
              /\ resp'.op = "retrain" => resp'.status = 422
              /\ UNCHANGED <<disk, nextRun, built, committed, returned>>
      ]_vars

\* a call was refused on a fresh checkout, where no directory exists yet
C13_Witness ==
    /\ resp.failedAt = "tp_validate"
    /\ resp.op = "train"
    /\ dirs = {}
    /\ artifact = AbsentArtifact
    /\ nextRun = 1

(***************************************************************************)
(* The functions of src/src/registry.py called directly, one whole call    *)
(* after the other, on the files an earlier use of the program may have    *)
(* left.                                                                   *)
(***************************************************************************)
\* no serving process: every thread idle, nothing loaded, no history
QuietProcess ==
    /\ sModel = NoModel /\ sMeta = NoRecord /\ sErr = ErrNone /\ sTag = <<0, 0, 0>>
    /\ lock = NoThread
    /\ phase = "library"
    /\ pc = [t \in Threads |-> "idle"]
    /\ req = [t \in Threads |-> NoReq]
    /\ loc = [t \in Threads |-> InitLoc]
    /\ resp = NoResp
    /\ nextRun = 1 /\ nextRefresh = 1
    /\ built = <<>> /\ committed = <<>> /\ returned = <<>>
    /\ hist = InitHist
    /\ budget = 0

\* records train_and_promote builds: for the dataset 1.7, 1.8 and the
\* y_value 1.5, 2, infinity and NaN, and for the mean variant
RoundTripRecords ==
    { MetaFor("alice", "constant", y, << <<17, 10>>, <<9, 5>> >>, 2) :
          y \in {DefaultY, <<2, 1>>, Infinity, NaN} }
    \cup { MetaFor("bob", "mean", DefaultY, << <<17, 10>>, <<9, 5>> >>, 3) }

InitRegistry ==
    /\ dirs \in SUBSET (AllDirs \cup {"data"})
    /\ prodFile \in RegistryContents
    /\ prodFile.exists => "metadata" \in dirs
    /\ retrainLog \in {<<>>, <<EarlierRec>>}
    /\ retrainLog # <<>> => "metadata" \in dirs
    /\ artifact \in {AbsentArtifact,
                     [exists |-> TRUE, ok |-> TRUE, model |-> ConstantModel(DefaultY, 1)]}
    /\ artifact.exists => "models/production" \in dirs
    /\ tmpFile = [t \in Threads |-> AbsentFile]
    /\ orphans = {}
    /\ csv = AbsentCsv /\ dvcPtr = FALSE
    /\ QuietProcess

\* a direct call of the library starts: op is its name
DirectCall(op) ==
    /\ budget < MaxOps
    /\ budget' = budget + 1
    /\ hist' = [hist EXCEPT !.ops = Append(@, op)]
    /\ UNCHANGED <<serving, lock, phase, pc, req, loc, nextRun, nextRefresh, built,
                   committed, returned>>

\* a plausible slip: the directories are removed and made again
CallEnsureDirsRecreate ==
    /\ DirectCall("ensure_dirs")
    /\ dirs' = ensure_dirs(dirs)
    /\ prodFile' = AbsentFile
    /\ retrainLog' = <<>>
    /\ artifact' = AbsentArtifact
    /\ resp' = [NoResp EXCEPT !.op = "ensure_dirs"]
    /\ UNCHANGED <<tmpFile, orphans, csv, dvcPtr>>

\* ensure_dirs()
CallEnsureDirs ==
    /\ DirectCall("ensure_dirs")
    /\ dirs' = ensure_dirs(dirs)
    /\ resp' = [NoResp EXCEPT !.op = "ensure_dirs"]
    /\ UNCHANGED <<prodFile, tmpFile, orphans, retrainLog, artifact, csv, dvcPtr>>

\* read_production()
CallReadProduction ==
    /\ DirectCall("read_production")
    /\ resp' = [NoResp EXCEPT !.op = "read_production", !.meta = read_production(prodFile)]
    /\ UNCHANGED disk

\* write_production(meta) from its first line to its return: the target is
\* the complete payload; or a step fails before the replace took effect,
\* the target is as it was, and the finally block removes the temporary
\* file or, when os.remove fails too, leaves it with what was written
CallWriteProduction(meta) ==
    /\ DirectCall("write_production")
    /\ dirs' = ensure_dirs(dirs)
    /\ \/ /\ prodFile' = FileOf(meta, PayloadChunks)
          /\ resp' = [NoResp EXCEPT !.op = "write_production", !.meta = meta, !.wrote = TRUE]
          /\ UNCHANGED orphans
       \/ /\ UNCHANGED <<prodFile, orphans>>
          /\ resp' = [NoResp EXCEPT !.op = "write_production", !.meta = meta, !.exc = "OSError"]
       \/ /\ UNCHANGED prodFile
          /\ \E k \in 0..PayloadChunks : orphans' = orphans \cup {FileOf(meta, k)}
          /\ resp' = [NoResp EXCEPT !.op = "write_production", !.meta = meta, !.exc = "OSError",
                                    !.tmpLeft = TRUE]
    /\ UNCHANGED <<tmpFile, retrainLog, artifact, csv, dvcPtr>>

NextRegistry ==
    \/ CallEnsureDirs
    \/ CallReadProduction
    \/ \E meta \in RoundTripRecords : CallWriteProduction(meta)

SpecRegistry == InitRegistry /\ [][NextRegistry]_vars

\* the file holds the whole serialization of a dict
HoldsWholeObject(f) == f.exists /\ f.form = "object" /\ f.chunks = PayloadChunks

FieldEq(k, a, b) == IF k \in FloatKeys THEN a = b /\ a # NaN ELSE a = b

\* a read_production() follows a write_production(r) that succeeded
ReadFollowsWrite ==
    /\ resp.op = "write_production" /\ resp.exc = ""
    /\ resp'.op = "read_production"

C20_EnsureDirsIdempotent ==
    [][ resp'.op = "ensure_dirs" =>
            /\ dirs \subseteq dirs'
            /\ AllDirs \subseteq dirs'
            /\ dirs' \ dirs \subseteq AllDirs
            /\ resp.op = "ensure_dirs" => dirs' = dirs
            /\ UNCHANGED <<prodFile, retrainLog, artifact, tmpFile, orphans, csv, dvcPtr>>
      ]_vars

\* two calls in a row, on a directory tree that had a pointer, a log and an
\* artifact, and a directory of its own
C20_Witness ==
    /\ hist.ops = <<"ensure_dirs", "ensure_dirs">>
    /\ "data" \in dirs
    /\ HoldsWholeObject(prodFile)
    /\ retrainLog # <<>>
    /\ artifact.exists

ClientErrors == 400..499
ServerErrors == 500..599

(***************************************************************************)
(* C16: POST /retrain answers invalid input with a client error, a failure *)
(* of the workflow (dataset not found or unavailable, a data-quality error *)
(* of the dataset, a tracking failure, any later failure) with a server    *)
(* error, a promotion whose refreshed ServingState has no model with a     *)
(* server error that carries the load diagnostic, and only otherwise with  *)
(* ok and the production record.                                           *)
(***************************************************************************)
C16_RetrainResponses ==
    resp.op = "retrain" =>
        /\ resp.status \in ClientErrors \cup ServerErrors \cup {200}
        /\ resp.failedAt = "tp_validate" => resp.status \in ClientErrors /\ resp.exc = "ValueError"
        /\ resp.failedAt \in {"tp_dataset", "tp_readcsv", "tp_track"} => resp.status \in ServerErrors
        /\ (resp.exc # "" /\ resp.failedAt # "tp_validate") => resp.status \in ServerErrors
        /\ (resp.exc = "" /\ sModel = NoModel) =>
              /\ resp.status \in ServerErrors
              /\ resp.detail \in {ErrLoadFailed, ErrNoModelYet, "Model not available after retrain."}
        /\ resp.status = 200 =>
              /\ resp.exc = "" /\ resp.wrote /\ resp.logged
              /\ sModel # NoModel
              /\ resp.meta # NoRecord

(***************************************************************************)
(* The dataset helpers of src/src/train.py called directly, one whole call *)
(* after the other, on a checkout with or without the dataset file and its *)
(* pointer.                                                                *)
(***************************************************************************)
\* a dataset file with the one column col and the values vals
CsvOf(col, vals) ==
    [exists |-> TRUE, header |-> TRUE, columns |-> {col},
     rows |-> [i \in 1..Len(vals) |-> [c \in {col} |-> Num(vals[i][1], vals[i][2])]]]

Datasets ==
    { CsvCm, CsvBadRow,
      CsvOf("height_cm", << <<170, 1>>, <<180, 1>>, <<190, 1>> >>),
      CsvOf("height_m", << <<17, 10>>, <<9, 5>> >>),
      CsvOf("height", << <<10, 1>>, <<5, 1>> >>),
      CsvOf("height", << <<5, 1>>, <<170, 1>> >>),
      CsvOf("height_m", << <<21, 2>> >>),
      CsvOf("height_cm", <<>>),
      CsvOf("weight", << <<70, 1>> >>),
      [exists |-> TRUE, header |-> FALSE, columns |-> {}, rows |-> <<>>] }

InitDataset ==
    /\ csv \in Datasets \cup {AbsentCsv}
    /\ dvcPtr \in BOOLEAN
    /\ dirs = {}
    /\ prodFile = AbsentFile
    /\ tmpFile = [t \in Threads |-> AbsentFile]
    /\ orphans = {}
    /\ retrainLog = <<>>
    /\ artifact = AbsentArtifact
    /\ QuietProcess

\* _ensure_dataset_materialized(root_dir), when dvc pull would do pull
CallEnsureDatasetMaterialized(pull) ==
    /\ budget < MaxOps
    /\ budget' = budget + 1
    /\ LET m == EnsureDatasetMaterialized(csv, dvcPtr, pull)
       IN  /\ csv' = m.csv
           /\ hist' = [hist EXCEPT !.ops = Append(@, "materialize"), !.pulls = @ + m.pulls]
           /\ resp' = [NoResp EXCEPT !.op = "materialize", !.exc = m.exc,
                                     !.detail = IF m.pulls > 0 THEN pull ELSE ""]
    /\ UNCHANGED <<dirs, prodFile, tmpFile, orphans, retrainLog, artifact, dvcPtr, serving,
                   lock, phase, pc, req, loc, nextRun, nextRefresh, built, committed, returned>>

\* _read_heights_csv_normalized(csv_path)
CallReadHeightsCsvNormalized ==
    /\ DirectCall("read_heights")
    /\ LET r == ReadHeightsCsvNormalized(csv)
       IN  resp' = [NoResp EXCEPT !.op = "read_heights", !.exc = r.exc, !.heights = r.heights]
    /\ UNCHANGED disk

NextDataset ==
    \/ \E pull \in PullOutcomes : CallEnsureDatasetMaterialized(pull)
    \/ CallReadHeightsCsvNormalized

SpecDataset == InitDataset /\ [][NextDataset]_vars

RawHeights(c) == ParseRows(c.rows, HeightColumn(c.columns)).values

\* p = q * k, for rationals p, q and an integer k
RatIsTimes(p, q, k) == p[1] * q[2] = q[1] * k * p[2]

(***************************************************************************)
(* C19: when the maximum of the values read is greater than 10 every value *)
(* is divided by 100 (170, 180, 190 become 1.7, 1.8, 1.9); when it is 10   *)
(* or less every value is returned as read; the values keep their order    *)
(* and their number.                                                       *)
(***************************************************************************)
C19_UnitNormalization ==
    (resp.op = "read_heights" /\ resp.exc = "") =>
        LET raw == RawHeights(csv)
            out == resp.heights
        IN  /\ Len(out) = Len(raw)
            /\ IF \E i \in 1..Len(raw) : RatGt(raw[i], <<10, 1>>)
               THEN \A i \in 1..Len(raw) : RatIsTimes(raw[i], out[i], 100)
               ELSE out = raw

\* the dataset 170, 180, 190 was read as 1.7, 1.8, 1.9
C19_Witness ==
    /\ resp.op = "read_heights" /\ resp.exc = ""
    /\ RawHeights(csv) = << <<170, 1>>, <<180, 1>>, <<190, 1>> >>
    /\ resp.heights = << <<17, 10>>, <<9, 5>>, <<19, 10>> >>

(***************************************************************************)
(* train_and_promote called by a library caller, one call after the other, *)
(* with arguments that need and that do not need cleaning, on datasets in  *)
(* centimeters and in meters.                                              *)
(***************************************************************************)
TrainerArgs == {" alice ", "bob"}
TrainArgs ==
    { [model_type |-> "constant", y_value |-> DefaultY],
      [model_type |-> "constant", y_value |-> <<2, 1>>],
      [model_type |-> "mean", y_value |-> DefaultY],
      [model_type |-> " Mean ", y_value |-> <<2, 1>>],
      [model_type |-> "", y_value |-> <<2, 1>>] }

CsvMeters == CsvOf("height_m", << <<17, 10>>, <<9, 5>> >>)
CsvThree == CsvOf("height_cm", << <<170, 1>>, <<180, 1>>, <<190, 1>> >>)
TrainDatasets == {CsvCm, CsvMeters, CsvThree, CsvBadRow, AbsentCsv}

InitTrain ==
    /\ csv \in TrainDatasets
    /\ dvcPtr = TRUE
    /\ dirs = {}
    /\ prodFile = AbsentFile
    /\ tmpFile = [t \in Threads |-> AbsentFile]
    /\ orphans = {}
    /\ retrainLog = <<>>
    /\ artifact = AbsentArtifact
    /\ QuietProcess

\* train_and_promote(trainer, model_type, y_value), when no other call is
\* in progress
CallTrainAndPromote(trainer, inp) ==
    /\ \A u \in Threads : pc[u] = "idle"
    /\ StartTrain(StartupThread, trainer, inp)

NextTrain ==
    \/ \E trainer \in TrainerArgs, inp \in TrainArgs : CallTrainAndPromote(trainer, inp)
    \/ \E t \in Threads : TpPrepare(t)
    \/ \E t \in Threads : TpDumpBegin(t)
    \/ \E t \in Threads : TpDumpEnd(t)
    \/ \E t \in Threads : TpUpload(t)
    \/ \E t \in Threads : WpWrite(t)
    \/ \E t \in Threads : WpReplace(t)
    \/ \E t \in Threads : AlAppend(t)

SpecTrain == InitTrain /\ [][NextTrain]_vars

\* the number of valid rows and the mean in meters of a dataset, by hand
DatasetFacts(c) ==
    IF c = CsvCm THEN [n |-> 2, mean |-> <<7, 4>>]          \* 170, blank, 180
    ELSE IF c = CsvMeters THEN [n |-> 2, mean |-> <<7, 4>>]  \* 1.7, 1.8
    ELSE IF c = CsvThree THEN [n |-> 3, mean |-> <<9, 5>>]   \* 170, 180, 190
    ELSE [n |-> 0, mean |-> <<0, 1>>]

\* thread t returns from a successful train_and_promote in this step
Returns(t) == pc[t] = "al_append" /\ resp'.op = "train" /\ resp'.status = 200

\* the same rational
RatSame(p, q) == p[1] * q[2] = q[1] * p[2]

\* the y_value, the n_rows and the statistic the record must carry
FactsRecorded(t, record, mtype) ==
    /\ record.n_rows = DatasetFacts(csv').n
    /\ RatSame(record.mean_height_m, DatasetFacts(csv').mean)
    /\ mtype = "constant" => record.y_value = req[t].y_value
    /\ mtype = "mean" => RatSame(record.y_value, DatasetFacts(csv').mean)

(***************************************************************************)
(* C17, as stated: for every non-blank trainer and model_type in           *)
(* {constant, mean}, read_production after train_and_promote returns a     *)
(* record whose trainer and model_type are the arguments, whose y_value is *)
(* the argument (constant) or the mean of the dataset in meters (mean),    *)
(* and whose n_rows is the number of valid rows.                           *)
(***************************************************************************)
C17_RecordMatchesInputs ==
    [][ \A t \in Threads :
          (Returns(t) /\ req[t].model_type \in ModelTypeSet) =>
              LET record == read_production(prodFile')
              IN  /\ record.trainer = req[t].trainer
                  /\ record.model_type = req[t].model_type
                  /\ FactsRecorded(t, record, req[t].model_type)
      ]_vars

(***************************************************************************)
(* C17, amended: for every argument triple that passes the validation,     *)
(* read_production after train_and_promote returns a record whose trainer  *)
(* is the argument without surrounding whitespace, whose model_type is the *)
(* argument trimmed and lower-cased (constant when empty), whose y_value   *)
(* is the argument (constant) or the mean of the dataset in meters (mean), *)
(* and whose n_rows is the number of valid rows.                           *)
(***************************************************************************)
C17_RecordMatchesCleanedInputs ==
    [][ \A t \in Threads :
          Returns(t) =>
              LET record == read_production(prodFile')
                  mtype == Lower(Strip(IF req[t].model_type = "" THEN "constant"
                                       ELSE req[t].model_type))
              IN  /\ record.trainer = Strip(req[t].trainer)
                  /\ record.model_type = mtype
                  /\ mtype \in ModelTypeSet
                  /\ FactsRecorded(t, record, mtype)
      ]_vars

\* train_and_promote("bob", "mean") on the dataset 170, 180 has returned
\* and the registry holds n_rows 2 and the statistic 1.75
C17_Witness ==
    /\ resp.op = "train" /\ resp.status = 200
    /\ csv = CsvCm
    /\ read_production(prodFile).trainer = "bob"
    /\ read_production(prodFile).model_type = "mean"
    /\ read_production(prodFile).n_rows = 2
    /\ read_production(prodFile).y_value = <<7, 4>>
    /\ read_production(prodFile) = resp.meta

\* thread t leaves write_production with an exception raised after mkstemp
\* gave it a temporary file
FailsInWrite(t) == pc[t] \in {"wp_write", "wp_replace"} /\ pc'[t] = "idle" /\ resp'.exc # ""

\* thread t leaves write_production because mkstemp failed
FailsAtMkstemp(t) == pc[t] = "tp_upload" /\ pc'[t] = "idle" /\ resp'.failedAt = "wp_mkstemp"

\* the os.replace of thread t takes effect
Replaces(t) == pc[t] = "wp_replace" /\ pc'[t] = "al_append"

(***************************************************************************)
(* C21, as stated: when write_production fails before the replace took     *)
(* effect, the temporary file of the call is gone from the metadata        *)
(* directory and production.json is as it was; after a successful          *)
(* write_production no temporary file of the call remains.                 *)
(***************************************************************************)
C21_TempFileAlwaysRemoved ==
    [][ \A t \in Threads :
          /\ (FailsInWrite(t) \/ FailsAtMkstemp(t)) =>
                /\ prodFile' = prodFile
                /\ ~tmpFile'[t].exists
                /\ orphans' = orphans
          /\ Replaces(t) =>
                /\ ~tmpFile'[t].exists
                /\ orphans' = orphans
      ]_vars

(***************************************************************************)
(* C21, amended: when write_production fails before the replace took       *)
(* effect, production.json is as it was and the removal of the temporary   *)
(* file is attempted: the file is gone unless os.remove failed too, and    *)
(* then it stays with what was written to it and the failure of the        *)
(* removal is ignored; after a successful write_production no temporary    *)
(* file of the call remains.                                               *)
(***************************************************************************)
C21_TempFileRemovedUnlessRemoveFails ==
    [][ \A t \in Threads :
          /\ (FailsInWrite(t) \/ FailsAtMkstemp(t)) =>
                /\ prodFile' = prodFile
                /\ ~tmpFile'[t].exists
                /\ resp'.exc = "OSError"
                /\ ~resp'.tmpLeft => orphans' = orphans
                /\ resp'.tmpLeft => (tmpFile[t].exists /\ orphans' = orphans \cup {tmpFile[t]})
          /\ Replaces(t) =>
                /\ ~tmpFile'[t].exists
                /\ orphans' = orphans
      ]_vars

\* the second write_production failed at os.replace, its temporary file was
\* removed, and production.json still holds the record of the first
C21_Witness ==
    /\ resp.op = "train" /\ resp.failedAt = "wp_replace" /\ ~resp.tmpLeft
    /\ resp.run = 2
    /\ orphans = {}
    /\ \A t \in Threads : ~tmpFile[t].exists
    /\ read_production(prodFile) = built[1]

(***************************************************************************)
(* The service under POST /retrain requests alone: the startup hook, then  *)
(* requests on the worker threads in any interleaving.                     *)
(***************************************************************************)
NextRetrain ==
    \/ \E t \in Threads, trainer \in Trainers : StartRetrain(t, trainer)
    \/ \E t \in Threads : TpPrepare(t)
    \/ \E t \in Threads : TpDumpBegin(t)
    \/ \E t \in Threads : TpDumpEnd(t)
    \/ \E t \in Threads : TpUpload(t)
    \/ \E t \in Threads : WpWrite(t)
    \/ \E t \in Threads : WpReplace(t)
    \/ \E t \in Threads : AlAppend(t)
    \/ \E t \in Threads : LdExists(t)
    \/ \E t \in Threads : LdRead(t)
    \/ \E t \in Threads : LdArtifact(t)
    \/ \E t \in Threads : LdSetMeta(t)
    \/ \E t \in Threads : LdSetModel(t)
    \/ \E t \in Threads : LdSetErr(t)
    \/ \E t \in Threads : RtCheck(t)

SpecRetrain == Init /\ [][NextRetrain]_vars

\* no request is in flight, every promotion that took effect was logged and
\* returned, and model.pkl is loadable
AllRetrainsDone ==
    /\ phase = "serving"
    /\ \A t \in Threads : pc[t] = "idle"
    /\ committed # <<>>
    /\ returned = committed
    /\ ~hist.step9lost
    /\ artifact.exists /\ artifact.ok

\* the place of a record in the order of the pointer updates, 0 for the
\* empty record
PlaceOf(rec) ==
    IF rec.run_id \in Range(committed)
    THEN CHOOSE i \in 1..Len(committed) : committed[i] = rec.run_id
    ELSE 0

(***************************************************************************)
(* C22: under concurrent /retrain requests, once no request is in flight   *)
(* and a promotion succeeded with a loadable artifact, _production_meta is *)
(* the record read_production returns; and a refresh that read an older    *)
(* record never replaces the _production_meta of a refresh that read a     *)
(* newer one.                                                              *)
(***************************************************************************)
C22_ServingFollowsRegistry ==
    /\ [](AllRetrainsDone => sMeta = read_production(prodFile))
    /\ [][ \A t \in Threads :
             (pc[t] = "ld_lock" /\ pc'[t] = "ld_set_model") => PlaceOf(sMeta') >= PlaceOf(sMeta)
         ]_vars

\* no refresh is in the middle of its three assignments: what a reader that
\* takes _state_lock can see
Settled == lock = NoThread \/ pc[lock] \notin {"ld_set_model", "ld_set_err"}

(***************************************************************************)
(* C23: in every ServingState a reader can see, a loaded model comes with  *)
(* an empty _model_load_error and a _production_meta whose model_path is   *)
(* not empty; and once the first refresh is done, _model is None exactly   *)
(* when _model_load_error is not empty.                                    *)
(***************************************************************************)
C23_ServingStateCoherent ==
    Settled =>
        /\ sModel # NoModel => (sErr = ErrNone /\ Strip(sMeta.model_path) # "")
        /\ phase = "serving" => (sModel = NoModel <=> sErr # ErrNone)

\* the startup refresh found nothing and recorded why; the refresh of a
\* later /retrain installed a model, its record, and cleared the error
C23_Witness ==
    /\ hist.before = "Uninitialized"
    /\ phase = "serving" /\ lock = NoThread
    /\ sTag = <<2, 2, 2>>
    /\ sModel # NoModel /\ sErr = ErrNone
    /\ sMeta = read_production(prodFile) /\ sMeta.model_path = ModelRelPath
    /\ committed = <<1>>

====
